---- MODULE Spec2Model ----
(***************************************************************************)
(* A model of src/arbitrary.rs: the Arbitrary trait's generators.          *)
(*                                                                         *)
(* A generation call arbitrary::<T>(size) is run as a stack machine: one   *)
(* frame per active call of Arbitrary::arbitrary, one action per generator *)
(* step.  The random source (std::rand::task_rng) is a deterministic       *)
(* generator whose state is a tape of raw outputs and a read position.     *)
(* The machine word (uint) and the f64 mantissa are scaled down, keeping   *)
(* wrap-around of 16 * size and of 1 + n, the rounding of size as f64, and *)
(* the out-of-range float-to-uint cast (an unspecified word).              *)
(***************************************************************************)
EXTENDS Integers, Sequences, FiniteSets, TLC

VARIABLES
    ty,       \* the type T of the request arbitrary::<T>(size)
    size,     \* the size the caller passed
    rng,      \* the random source: [tape, pos]
    stack,    \* the active calls of Arbitrary::arbitrary, innermost last
    result,   \* the value returned to the caller, once done
    done,     \* TRUE once the outermost call has returned
    calls,    \* number of draws made from the random source (history)
    log,      \* history of the small_n calls: <<[size, e, n], ...>>
    rng0,     \* the random source as it was when the request was made
    prev      \* the outcome of the request made before on the same source

vars == <<ty, size, rng, stack, result, done, calls, log, rng0, prev>>

\* what no generator changes
req == <<ty, size, rng0, prev>>

----------------------------------------------------------------------------
(* Bounds of the model *)

\* bits of the machine word uint (64 in the build; scaled)
WordBits == 6
\* bits of the f64 significand (53 in the build; scaled with the word)
MantBits == 5
\* binary digits after the point of an exponential sample
EFracBits == 1
\* largest integer part of an exponential sample
MaxE == 20
\* largest size of the requests that build containers
MaxSize == 2
\* length of the random source's period in the container specifications
TapeLen == 3

----------------------------------------------------------------------------
(* Arithmetic of uint and f64 *)

RECURSIVE Pow2(_)
Pow2(k) == IF k = 0 THEN 1 ELSE 2 * Pow2(k - 1)

\* uint values are 0 .. Word - 1
Word == Pow2(WordBits)

\* an exponential sample is eNum / EDen
EDen == Pow2(EFracBits)

MaxENum == MaxE * EDen

Min(a, b) == IF a <= b THEN a ELSE b

RECURSIVE BitLen(_)
BitLen(x) == IF x = 0 THEN 0 ELSE 1 + BitLen(x \div 2)

\* round a non-negative integer to MantBits significant bits, ties to even:
\* the rounding of every f64 operation (scale-invariant, so it is applied to
\* the numerator of a value with EFracBits binary digits as well)
RoundSig(x) ==
    IF BitLen(x) <= MantBits THEN x
    ELSE LET p    == BitLen(x) - MantBits
             unit == Pow2(p)
             q    == x \div unit
             r    == x % unit
             half == unit \div 2
             up   == r > half \/ (r = half /\ q % 2 = 1)
         IN  (IF up THEN q + 1 ELSE q) * unit

\* size as f64
SizeAsF64(sz) == RoundSig(sz)

\* (*f) * (size as f64), as a numerator over EDen
Product(eNum, sz) == RoundSig(eNum * SizeAsF64(sz))

\* the integer part a float-to-integer cast keeps
Trunc(num) == num \div EDen

\* ... as uint: the truncated value when it fits the word; otherwise the cast
\* is out of range and the build may produce any word
CastOutcomes(t) == IF t < Word THEN {t} ELSE 0 .. (Word - 1)

\* 16 * size in uint arithmetic
Mul16(sz) == (16 * sz) % Word

\* the count without the added one
Add1Dropped(n) == n % Word

\* 1 + n in uint arithmetic
Add1(n) == (1 + n) % Word

\* small_n without its clamp: the cast's value is returned as it is
small_n_unclamped(sz, eNum) == CastOutcomes(Trunc(Product(eNum, sz)))

\* the values small_n(size) can return when the exponential sample is
\* eNum / EDen:  n.min(&(16 * size))
small_n(sz, eNum) ==
    { Min(c, Mul16(sz)) : c \in CastOutcomes(Trunc(Product(eNum, sz))) }

----------------------------------------------------------------------------
(* The random source *)

\* the raw outputs of the random source
Raw == 0 .. MaxENum

\* one output of the generator and its next state; the generator is periodic
RngNext(r) ==
    [val |-> r.tape[r.pos],
     rng |-> [r EXCEPT !.pos = (r.pos % Len(r.tape)) + 1]]

\* std::rand::random::<Exp1>(): the sample's numerator over EDen
RandExp(raw) == raw % (MaxENum + 1)

\* std::rand::random::<bool>()
RandBool(raw) == raw % 2 = 1

\* the scalar types of arb_rand! and u8
PrimKinds == {"i8", "u8", "int", "uint", "float", "bool", "char", "unit"}

\* std::rand::random::<T>() of a scalar type T, decoded from a raw output
RandOf(k, raw) ==
    CASE k = "i8"   -> (LET b == raw % 256 IN IF b >= 128 THEN b - 256 ELSE b)
      [] k = "u8"   -> raw % 256
      [] k = "int"  -> (LET w == raw % Word
                        IN  IF w >= Word \div 2 THEN w - Word ELSE w)
      [] k = "uint" -> raw % Word
      [] k = "bool" -> RandBool(raw)
      [] k = "unit" -> <<>>
      [] OTHER      -> raw

\* std::rand::random::<T>() on the random source r; the unit type is
\* produced without reading the generator
RandomDraw(r, k) ==
    IF k = "unit" THEN [val |-> RandOf(k, 0), rng |-> r]
    ELSE LET d == RngNext(r) IN [val |-> RandOf(k, d.val), rng |-> d.rng]

\* rng.choose(list)
choose(raw, list) == list[(raw % Len(list)) + 1]

\* the generator after k outputs
RngSkip(r, k) == [r EXCEPT !.pos = ((r.pos - 1 + k) % Len(r.tape)) + 1]

\* rng.gen_str(n): n characters read from the generator, one after another
gen_str(r, n) ==
    [val |-> [j \in 1 .. n |-> RngNext(RngSkip(r, j - 1)).val],
     rng |-> RngSkip(r, n)]

----------------------------------------------------------------------------
(* gen_unicode_str's token list *)

\* text.word_iter().collect(): the whitespace-delimited words of the embedded
\* corpus, each as its UTF-8 bytes
corpus ==
    << <<97>>,
       <<98>>,
       <<99>>,
       <<48>>,
       <<36>>,
       <<226, 135, 140>>,
       <<91, 203, 136, 202, 143, 112, 115, 105, 108, 201, 148, 110, 93>>,
       <<92>>,
       <<34>>,
       <<226, 128, 154, 100, 115, 99, 104, 226, 128, 152>>,
       <<226, 128, 158, 102, 195, 188, 104, 226, 128, 156>>,
       <<226, 128, 161>>,
       <<226, 130, 172>>,
       <<226, 129, 191>>,
       <<239, 188, 146>>,
       <<239, 191, 189>>,
       <<240, 159, 136, 152>>,
       <<225, 188, 128, 207, 128, 225, 189, 184>>,
       <<209, 129, 208, 190, 209, 129, 209, 130, 208, 190, 208, 184, 209, 130, 209, 129, 209, 143>>,
       <<224, 184, 151, 224, 184, 163, 224, 184, 135, 224, 184, 153, 224, 184, 177, 224, 184, 154, 224, 184, 150, 224, 184, 183, 224, 184, 173, 224, 184, 130, 224, 184, 177, 224, 184, 153, 224, 184, 151, 224, 184, 181, 224, 185, 128, 224, 184, 155, 224, 185, 135, 224, 184, 153, 224, 184, 151, 224, 184, 181, 224, 185, 136, 224, 184, 158, 224, 184, 182, 224, 185, 136, 224, 184, 135>>,
       <<72, 101, 108, 108, 111>>,
       <<119, 111, 114, 108, 100>>,
       <<206, 154, 206, 177, 206, 187, 206, 183, 206, 188, 225, 189, 179, 207, 129, 206, 177>>,
       <<206, 186, 225, 189, 185, 207, 131, 206, 188, 206, 181>>,
       <<227, 130, 179, 227, 131, 179, 227, 131, 139, 227, 131, 129, 227, 131, 143>> >>

\* the tokens [" ", " ", "\n"]
separators == << <<32>>, <<32>>, <<10>> >>

\* the token list of a split that keeps the empty word before the first
\* whitespace
wordsUnfiltered == << << >> >> \o corpus \o separators

\* words: the corpus' words, then words.push_all([" ", " ", "\n"])
words == corpus \o separators

RECURSIVE MaxTokenLen(_)
MaxTokenLen(list) ==
    IF list = <<>> THEN 0
    ELSE LET m == MaxTokenLen(Tail(list))
         IN  IF Len(Head(list)) > m THEN Len(Head(list)) ELSE m

----------------------------------------------------------------------------
(* Types and call frames *)

\* a type: its kind and its type parameters
Ty(k, a) == [k |-> k, a |-> a]

Prim(k) == Ty(k, <<>>)

\* arbiter with its fields swapped
arbiterSwapped(count, sz) == [count |-> sz, size |-> count]

\* Iter<T> { count, size }
arbiter(count, sz) == [count |-> count, size |-> sz]

\* the activation of Arbitrary::arbitrary::<t>(sz) at its entry
Frame(t, sz) ==
    [ty   |-> t,                \* Self
     size |-> sz,               \* the parameter sz
     pc   |-> "call",           \* where the call stands
     it   |-> arbiter(0, 0),    \* the Iter being collected
     vals |-> <<>>,             \* the sub-values generated so far, in order
     n    |-> 0,                \* the local n
     i    |-> 0,                \* iterations of n.times done
     map  |-> <<>>,             \* the HashMap v, as its entries
     res  |-> <<>>,             \* gen_unicode_str's res, as bytes
     toks |-> <<>>]             \* history: the tokens appended to res

Top == stack[Len(stack)]

Running(k, pc) ==
    /\ stack # <<>>
    /\ Top.ty.k = k
    /\ Top.pc = pc

\* the innermost call returns v: to the caller when it is the outermost
\* call, to the calling generator otherwise
Return(v) ==
    IF Len(stack) = 1
    THEN /\ stack' = <<>>
         /\ result' = v
         /\ done' = TRUE
    ELSE /\ stack' = [SubSeq(stack, 1, Len(stack) - 1)
                        EXCEPT ![Len(stack) - 1].vals = Append(@, v)]
         /\ UNCHANGED <<result, done>>

\* the innermost call becomes f and calls arbitrary::<t>(sz)
CallSub(f, t, sz) ==
    /\ stack' = Append([stack EXCEPT ![Len(stack)] = f], Frame(t, sz))
    /\ UNCHANGED <<result, done>>

\* the innermost call becomes f
Step(f) ==
    /\ stack' = [stack EXCEPT ![Len(stack)] = f]
    /\ UNCHANGED <<result, done>>

\* one entry of the history of small_n
Logged(sz, eNum, n) == Append(log, [size |-> sz, e |-> eNum, n |-> n])

----------------------------------------------------------------------------
(* Scalars, Random<T>, SmallN *)

\* a scalar generator that reads size: no draw at size 0
ArbRandSized ==
    /\ stack # <<>>
    /\ Top.ty.k \in PrimKinds
    /\ Top.pc = "call"
    /\ LET d == IF Top.size = 0 THEN [val |-> RandOf(Top.ty.k, 0), rng |-> rng]
                ELSE RandomDraw(rng, Top.ty.k)
       IN  /\ rng' = d.rng
           /\ Return(d.val)
    /\ calls' = (IF Top.size = 0 THEN calls ELSE calls + 1)
    /\ UNCHANGED <<req, log>>

\* arb_rand!($T) and impl Arbitrary for u8: fn arbitrary(_: uint) -> $T
ArbRand ==
    /\ stack # <<>>
    /\ Top.ty.k \in PrimKinds
    /\ Top.pc = "call"
    /\ LET d == RandomDraw(rng, Top.ty.k)
       IN  /\ rng' = d.rng
           /\ Return(d.val)
    /\ calls' = calls + 1
    /\ UNCHANGED <<req, log>>

\* impl Arbitrary for Random<T>: Random(std::rand::random())
ArbRandom ==
    /\ Running("Random", "call")
    /\ LET d == RandomDraw(rng, Top.ty.a[1].k)
       IN  /\ rng' = d.rng
           /\ Return(<<"Random", d.val>>)
    /\ calls' = calls + 1
    /\ UNCHANGED <<req, log>>

\* impl Arbitrary for SmallN: SmallN(small_n(sz))
ArbSmallN ==
    /\ Running("SmallN", "call")
    /\ LET d == RngNext(rng)
           e == RandExp(d.val)
       IN  /\ rng' = d.rng
           /\ \E n \in small_n(Top.size, e) :
                 /\ Return(n)
                 /\ log' = Logged(Top.size, e, n)
    /\ calls' = calls + 1
    /\ UNCHANGED req

----------------------------------------------------------------------------
(* Sequences: ~[T], NonEmptyVec<T> and the helper Iter<T> *)

\* impl Arbitrary for ~[T]: arbiter::<T>(small_n(sz), sz).collect()
VecStart ==
    /\ Running("Vec", "call")
    /\ LET d == RngNext(rng)
           e == RandExp(d.val)
       IN  /\ rng' = d.rng
           /\ \E n \in small_n(Top.size, e) :
                 /\ Step([Top EXCEPT !.it = arbiter(n, Top.size),
                                     !.pc = "iter"])
                 /\ log' = Logged(Top.size, e, n)
    /\ calls' = calls + 1
    /\ UNCHANGED req

\* impl Arbitrary for NonEmptyVec<T>: let n = 1 + small_n(sz);
\* NonEmptyVec(arbiter::<T>(n, sz).collect())
NonEmptyVecStart ==
    /\ Running("NonEmptyVec", "call")
    /\ LET d == RngNext(rng)
           e == RandExp(d.val)
       IN  /\ rng' = d.rng
           /\ \E n \in small_n(Top.size, e) :
                 /\ Step([Top EXCEPT !.it = arbiter(Add1(n), Top.size),
                                     !.pc = "iter"])
                 /\ log' = Logged(Top.size, e, n)
    /\ calls' = calls + 1
    /\ UNCHANGED req

\* Iter::next on a positive count: self.count -= 1
IterAfterNext(it) == [it EXCEPT !.count = it.count - 1]

\* an element size that decays: half the iterator's size
IterElemSizeHalved(it) == it.size \div 2

\* Iter::next on a positive count: the size of Some(arbitrary(self.size))
IterElemSize(it) == it.size

\* Iter::next, self.count > 0: the count goes down and the element is
\* generated; collect() pushes it when that call returns
IterNext ==
    /\ stack # <<>>
    /\ Top.pc = "iter"
    /\ Top.it.count > 0
    /\ CallSub([Top EXCEPT !.it = IterAfterNext(Top.it)],
               Top.ty.a[1], IterElemSize(Top.it))
    /\ UNCHANGED <<req, rng, calls, log>>

\* Iter::next, self.count = 0: None, and collect() returns the vector
IterEnd ==
    /\ stack # <<>>
    /\ Top.pc = "iter"
    /\ Top.it.count = 0
    /\ Return(Top.vals)
    /\ UNCHANGED <<req, rng, calls, log>>

----------------------------------------------------------------------------
(* Tuples, Option, Result, ~T *)

\* the size arb_tuple! passes to a component: Arbitrary::arbitrary::<$T>(sz)
TupleElemSize(sz) == sz

\* arb_tuple!: the next component, in order
TupleNext ==
    /\ Running("Tuple", "call")
    /\ Len(Top.vals) < Len(Top.ty.a)
    /\ CallSub(Top, Top.ty.a[Len(Top.vals) + 1], TupleElemSize(Top.size))
    /\ UNCHANGED <<req, rng, calls, log>>

\* arb_tuple!: the tuple of the components
TupleDone ==
    /\ Running("Tuple", "call")
    /\ Len(Top.vals) = Len(Top.ty.a)
    /\ Return(Top.vals)
    /\ UNCHANGED <<req, rng, calls, log>>

\* the size Option, Result and ~T pass to their payload: arbitrary(sz)
PayloadSize(sz) == sz

\* impl Arbitrary for Option<T>: if std::rand::random() { Some(arbitrary(sz)) }
\* else { None }
OptionFlip ==
    /\ Running("Option", "call")
    /\ LET d == RngNext(rng)
       IN  /\ rng' = d.rng
           /\ IF RandBool(d.val)
              THEN CallSub([Top EXCEPT !.pc = "some"], Top.ty.a[1],
                           PayloadSize(Top.size))
              ELSE Return(<<"None">>)
    /\ calls' = calls + 1
    /\ UNCHANGED <<req, log>>

OptionSome ==
    /\ Running("Option", "some")
    /\ Return(<<"Some", Top.vals[1]>>)
    /\ UNCHANGED <<req, rng, calls, log>>

\* impl Arbitrary for Result<T, U>: if std::rand::random() { Ok(arbitrary(sz)) }
\* else { Err(arbitrary(sz)) }
ResultFlip ==
    /\ Running("Result", "call")
    /\ LET d == RngNext(rng)
       IN  /\ rng' = d.rng
           /\ IF RandBool(d.val)
              THEN CallSub([Top EXCEPT !.pc = "ok"], Top.ty.a[1],
                           PayloadSize(Top.size))
              ELSE CallSub([Top EXCEPT !.pc = "err"], Top.ty.a[2],
                           PayloadSize(Top.size))
    /\ calls' = calls + 1
    /\ UNCHANGED <<req, log>>

ResultWrap ==
    /\ stack # <<>>
    /\ Top.ty.k = "Result"
    /\ Top.pc \in {"ok", "err"}
    /\ Return(<<(IF Top.pc = "ok" THEN "Ok" ELSE "Err"), Top.vals[1]>>)
    /\ UNCHANGED <<req, rng, calls, log>>

\* impl Arbitrary for ~T: ~arbitrary(sz)
BoxCall ==
    /\ Running("Box", "call")
    /\ CallSub([Top EXCEPT !.pc = "box"], Top.ty.a[1], PayloadSize(Top.size))
    /\ UNCHANGED <<req, rng, calls, log>>

BoxWrap ==
    /\ Running("Box", "box")
    /\ Return(<<"Box", Top.vals[1]>>)
    /\ UNCHANGED <<req, rng, calls, log>>

----------------------------------------------------------------------------
(* Strings: ~str and Unicode *)

\* impl Arbitrary for ~str: let n = small_n(sz); rng.gen_str(n)
StrGen ==
    /\ Running("Str", "call")
    /\ LET d == RngNext(rng)
           e == RandExp(d.val)
       IN  \E n \in small_n(Top.size, e) :
              /\ LET g == gen_str(d.rng, n)
                 IN  /\ rng' = g.rng
                     /\ Return(g.val)
              /\ log' = Logged(Top.size, e, n)
              /\ calls' = calls + 1 + n
    /\ UNCHANGED req

\* impl Arbitrary for Unicode: let n = small_n(sz);
\* Unicode(gen_unicode_str(rng, n)), up to the loop of gen_unicode_str
UnicodeStart ==
    /\ Running("Unicode", "call")
    /\ LET d == RngNext(rng)
           e == RandExp(d.val)
       IN  /\ rng' = d.rng
           /\ \E n \in small_n(Top.size, e) :
                 /\ Step([Top EXCEPT !.n = n, !.res = <<>>, !.pc = "loop"])
                 /\ log' = Logged(Top.size, e, n)
    /\ calls' = calls + 1
    /\ UNCHANGED req

\* an append that puts a space before the token
ConcatSpaced(res, token) == res \o <<32>> \o token

\* res += token
Concat(res, token) == res \o token

\* a loop condition that stops one byte short
LoopCondShort(res, len) == Len(res) + 1 < len

\* gen_unicode_str's loop condition: res.len() < len
LoopCond(res, len) == Len(res) < len

\* gen_unicode_str: while res.len() < len { res += rng.choose(words); }
UnicodeAppend ==
    /\ Running("Unicode", "loop")
    /\ LoopCond(Top.res, Top.n)
    /\ LET d == RngNext(rng)
           w == choose(d.val, words)
       IN  /\ rng' = d.rng
           /\ Step([Top EXCEPT !.res = Concat(Top.res, w),
                               !.toks = Append(@, w)])
    /\ calls' = calls + 1
    /\ UNCHANGED <<req, log>>

\* gen_unicode_str: the loop is over, res is returned
UnicodeDone ==
    /\ Running("Unicode", "loop")
    /\ ~LoopCond(Top.res, Top.n)
    /\ Return(Top.res)
    /\ UNCHANGED <<req, rng, calls, log>>

----------------------------------------------------------------------------
(* HashMap<K, V> *)

\* the entry of map m with key k, 0 when there is none
RECURSIVE Find(_, _, _)
Find(m, k, j) ==
    IF j > Len(m) THEN 0
    ELSE IF m[j].key = k THEN j
    ELSE Find(m, k, j + 1)

\* an insertion that never looks for an equal key
InsertAppend(m, k, x) == Append(m, [key |-> k, val |-> x])

\* v.insert(k, x): the value of an entry with an equal key is replaced,
\* a new entry is added otherwise
Insert(m, k, x) ==
    LET j == Find(m, k, 1)
    IN  IF j = 0 THEN Append(m, [key |-> k, val |-> x])
        ELSE [m EXCEPT ![j].val = x]

\* impl Arbitrary for HashMap<K, V>: let n = small_n(sz);
\* let mut v = HashMap::new()
MapStart ==
    /\ Running("HashMap", "call")
    /\ LET d == RngNext(rng)
           e == RandExp(d.val)
       IN  /\ rng' = d.rng
           /\ \E n \in small_n(Top.size, e) :
                 /\ Step([Top EXCEPT !.n = n, !.i = 0, !.map = <<>>,
                                     !.pc = "loop"])
                 /\ log' = Logged(Top.size, e, n)
    /\ calls' = calls + 1
    /\ UNCHANGED req

\* the size v.insert(arbitrary(sz), arbitrary(sz)) passes to key and value
MapElemSize(sz) == sz

\* for n.times: the key of v.insert(arbitrary(sz), arbitrary(sz))
MapKey ==
    /\ Running("HashMap", "loop")
    /\ Top.i < Top.n
    /\ Len(Top.vals) = 0
    /\ CallSub(Top, Top.ty.a[1], MapElemSize(Top.size))
    /\ UNCHANGED <<req, rng, calls, log>>

\* ... then its value
MapValue ==
    /\ Running("HashMap", "loop")
    /\ Len(Top.vals) = 1
    /\ CallSub(Top, Top.ty.a[2], MapElemSize(Top.size))
    /\ UNCHANGED <<req, rng, calls, log>>

\* ... then the insertion, which ends one iteration of n.times
MapInsert ==
    /\ Running("HashMap", "loop")
    /\ Len(Top.vals) = 2
    /\ Step([Top EXCEPT !.map = Insert(Top.map, Top.vals[1], Top.vals[2]),
                        !.vals = <<>>,
                        !.i = Top.i + 1])
    /\ UNCHANGED <<req, rng, calls, log>>

\* n iterations done: v is returned
MapDone ==
    /\ Running("HashMap", "loop")
    /\ Len(Top.vals) = 0
    /\ ~(Top.i < Top.n)
    /\ Return(Top.map)
    /\ UNCHANGED <<req, rng, calls, log>>

----------------------------------------------------------------------------
(* Requests *)

\* a request arbitrary::<t>(sz) about to run on a random source with the
\* given period of outputs
InitWith(types, sizes, tapes) ==
    /\ ty \in types
    /\ size \in sizes
    /\ rng \in [tape : tapes, pos : {1}]
    /\ rng0 = rng
    /\ stack = <<Frame(ty, size)>>
    /\ result = <<>>
    /\ done = FALSE
    /\ calls = 0
    /\ log = <<>>
    /\ prev = [set |-> FALSE, size |-> 0, val |-> <<>>, calls |-> 0,
               rng |-> rng]

\* pub fn arbitrary<T: Arbitrary>(sz: uint) -> T, called once more for the
\* same T with a size sz on the random source put back to where it was
Again(sizes) ==
    /\ done
    /\ ~prev.set
    /\ prev' = [set |-> TRUE, size |-> size, val |-> result,
                calls |-> calls, rng |-> rng]
    /\ \E sz \in sizes :
          /\ size' = sz
          /\ stack' = <<Frame(ty, sz)>>
    /\ rng' = rng0
    /\ result' = <<>>
    /\ done' = FALSE
    /\ calls' = 0
    /\ log' = <<>>
    /\ UNCHANGED <<ty, rng0>>

----------------------------------------------------------------------------
(* Specifications *)

\* the raw outputs the container specifications build their periods from
RawSmall == {0, 1, 3, MaxENum}

\* every period of k outputs over the raw outputs in S
TapesOf(k, S) == [1 .. k -> S]

\* the first size whose product 16 * size wraps
WrapSize == Word \div 16

\* small_n on every size of the word and every sample
InitSmallN == InitWith({Prim("SmallN")}, 0 .. (Word - 1), TapesOf(1, Raw))

NextSmallN == ArbSmallN

SpecSmallN == InitSmallN /\ [][NextSmallN]_vars

\* NonEmptyVec<int> on small sizes and on sizes whose product 16 * size wraps
NonEmptySizes == (0 .. MaxSize) \cup {WrapSize, WrapSize + 1, Word - 1}

InitNonEmpty ==
    InitWith({Ty("NonEmptyVec", <<Prim("int")>>)}, NonEmptySizes,
             TapesOf(1, RawSmall) \cup TapesOf(2, RawSmall))

NextNonEmpty == NonEmptyVecStart \/ IterNext \/ IterEnd \/ ArbRand

SpecNonEmpty == InitNonEmpty /\ [][NextNonEmpty]_vars

\* HashMap<u8, bool>
InitMap ==
    InitWith({Ty("HashMap", <<Prim("u8"), Prim("bool")>>)}, 0 .. MaxSize,
             TapesOf(TapeLen, RawSmall))

NextMap == MapStart \/ MapKey \/ MapValue \/ MapInsert \/ MapDone \/ ArbRand

SpecMap == InitMap /\ [][NextMap]_vars

\* Unicode: every sample, then every token
InitUnicode ==
    InitWith({Prim("Unicode")}, 0 .. MaxSize,
             { <<a, b>> : a \in Raw, b \in 0 .. (Len(words) - 1) })

NextUnicode == UnicodeStart \/ UnicodeAppend \/ UnicodeDone

SpecUnicode == InitUnicode /\ [][NextUnicode]_vars

\* ~[int] and ~[~[int]]
VecInt == Ty("Vec", <<Prim("int")>>)

InitVec ==
    InitWith({VecInt, Ty("Vec", <<VecInt>>)}, 0 .. MaxSize,
             TapesOf(TapeLen, RawSmall))

NextVec == VecStart \/ IterNext \/ IterEnd \/ ArbRand

SpecVec == InitVec /\ [][NextVec]_vars

\* the scalar types and Random<T>, each asked twice on the same source
ScalarTypes ==
    { Prim(k) : k \in PrimKinds }
        \cup { Ty("Random", <<Prim(k)>>) : k \in {"int", "bool", "u8"} }

ScalarSizes == (0 .. MaxSize) \cup {Word - 1}

InitScalar == InitWith(ScalarTypes, ScalarSizes, TapesOf(1, Raw))

NextScalar == ArbRand \/ ArbRandom \/ Again(ScalarSizes)

SpecScalar == InitScalar /\ [][NextScalar]_vars

\* every generator: the scalars, the wrappers, the containers and nestings
\* of them
TupleOf(k) == Ty("Tuple", [j \in 1 .. k |-> IF j % 2 = 1 THEN Prim("int")
                                            ELSE Prim("bool")])

GenTypes ==
    ScalarTypes
        \cup { Prim("SmallN"), Prim("Str"), Prim("Unicode") }
        \cup { TupleOf(k) : k \in 2 .. 6 }
        \cup { VecInt,
               Ty("NonEmptyVec", <<Prim("bool")>>),
               Ty("Option", <<Prim("int")>>),
               Ty("Result", <<Prim("int"), Prim("bool")>>),
               Ty("Box", <<Prim("int")>>),
               Ty("HashMap", <<Prim("u8"), Prim("bool")>>),
               Ty("Vec", <<Ty("Option", <<Ty("Tuple",
                   <<Ty("Box", <<Prim("u8")>>), Prim("unit")>>)>>)>>),
               Ty("HashMap", <<Prim("u8"),
                   Ty("Result", <<Ty("NonEmptyVec", <<Prim("bool")>>),
                                  Prim("SmallN")>>)>>) }

InitGen ==
    InitWith(GenTypes, 0 .. MaxSize,
             TapesOf(1, Raw) \cup TapesOf(TapeLen - 1, RawSmall))

NextGen ==
    \/ ArbRand \/ ArbRandom \/ ArbSmallN
    \/ VecStart \/ NonEmptyVecStart \/ IterNext \/ IterEnd
    \/ TupleNext \/ TupleDone
    \/ OptionFlip \/ OptionSome
    \/ ResultFlip \/ ResultWrap
    \/ BoxCall \/ BoxWrap
    \/ StrGen
    \/ UnicodeStart \/ UnicodeAppend \/ UnicodeDone
    \/ MapStart \/ MapKey \/ MapValue \/ MapInsert \/ MapDone

\* a generation call runs on its caller's thread to completion: a step
\* that can be taken is taken
SpecGen == InitGen /\ [][NextGen]_vars /\ WF_vars(NextGen)

----------------------------------------------------------------------------
(* Properties *)

RECURSIVE Flat(_)
Flat(ss) == IF ss = <<>> THEN <<>> ELSE Head(ss) \o Flat(Tail(ss))

Range(f) == { f[x] : x \in DOMAIN f }

\* the first small_n call of the request
First == log[1]

\* C1: every count small_n returns is between 0 and 16 * size (the product
\* in the integers, and as the uint product), small_n(0) is 0, and
\* SmallN::arbitrary(sz) returns that count
C1_SmallNBound ==
    /\ \A j \in 1 .. Len(log) :
          /\ 0 <= log[j].n
          /\ log[j].n <= 16 * log[j].size
          /\ log[j].n <= Mul16(log[j].size)
          /\ (log[j].size = 0 => log[j].n = 0)
    /\ done => /\ Len(log) = 1
               /\ result = First.n
               /\ result <= 16 * size
               /\ (size = 0 => result = 0)

\* the clamp has acted: the truncated product is above 16 * size
C1_Witness ==
    /\ done
    /\ size > 0
    /\ Trunc(Product(First.e, size)) > 16 * size
    /\ result = 16 * size

\* C9: small_n(size) returns min(trunc(e * size), 16 * size), with the
\* clamp bound the uint product
C9_SmallNValue ==
    done => result = Min(Trunc(Product(First.e, size)), Mul16(size))

\* C2: NonEmptyVec::arbitrary(size) returns exactly 1 + n elements, n the
\* count small_n(size) gave, so at least one; 1 + n does not wrap
C2_NonEmptyLength ==
    /\ done => /\ Len(result) = 1 + First.n
               /\ Len(result) >= 1
    /\ (stack # <<>> /\ stack[1].pc = "iter") =>
          /\ Add1(First.n) = 1 + First.n
          /\ stack[1].it.count + Len(stack[1].vals) + (Len(stack) - 1)
                = 1 + First.n

\* a size whose product 16 * size wraps, and the largest count it allows
C2_Witness ==
    /\ done
    /\ size = Word - 1
    /\ First.n = Word - 16
    /\ Len(result) = Word - 15

UniqueKeys(m) ==
    \A a, b \in 1 .. Len(m) : a # b => m[a].key # m[b].key

ValueOf(m, k) == m[Find(m, k, 1)].val

\* one step of the mapping loop that inserts (k, x): afterwards k maps to x,
\* every other key maps to what it did, and no other key appears
InsertStep ==
    (Running("HashMap", "loop") /\ Len(Top.vals) = 2) =>
        LET m  == Top.map
            k  == Top.vals[1]
            x  == Top.vals[2]
            m2 == stack'[Len(stack)].map
        IN  /\ Find(m2, k, 1) # 0
            /\ ValueOf(m2, k) = x
            /\ \A j \in 1 .. Len(m) :
                  m[j].key # k =>
                      /\ Find(m2, m[j].key, 1) # 0
                      /\ ValueOf(m2, m[j].key) = m[j].val
            /\ Len(m2) = (IF Find(m, k, 1) = 0 THEN Len(m) + 1 ELSE Len(m))
            /\ stack'[Len(stack)].i = Top.i + 1

\* the mapping of C3: HashMap::arbitrary(size) starts from the empty map and makes exactly
\* n = small_n(size) insertions of a fresh (key, value); no two entries ever
\* share a key, an insertion on a present key overwrites its value, and the
\* number of entries is at most n, at most 16 * size
C3_MapState ==
    /\ Running("HashMap", "loop") =>
          /\ UniqueKeys(Top.map)
          /\ Len(Top.map) <= Top.i
          /\ Top.i <= Top.n
          /\ Top.n = First.n
          /\ (Top.i = 0 => Top.map = <<>>)
          /\ calls = 1 + 2 * Top.i + Len(Top.vals)
    /\ done => /\ UniqueKeys(result)
               /\ Len(result) <= First.n
               /\ First.n <= 16 * size
               /\ calls = 1 + 2 * First.n
               /\ (size = 0 => result = <<>>)

\* C3, with the insertions: the state of the map at every step, and what
\* each insertion does to it
C3_MapInsertions == []C3_MapState /\ [][InsertStep]_vars

\* a map that lost entries to equal keys and still holds several
C3_Witness ==
    /\ done
    /\ Len(result) >= 2
    /\ Len(result) < First.n

\* C4: gen_unicode_str(rng, n) returns at least n bytes; for n = 0 the loop
\* body never runs and the empty string is returned
C4_UnicodeLength ==
    done => /\ Len(result) >= First.n
            /\ (First.n = 0 => result = <<>> /\ calls = 1)

\* a string that went past a positive requested length
C4_Witness ==
    /\ done
    /\ First.n > 1
    /\ Len(result) > First.n

\* C10: at every iteration and on return the string is the concatenation of
\* the tokens drawn, each one of the list, nothing between them; before the
\* last token it was shorter than n, so it ends below n + the longest token
C10_UnicodeTokens ==
    /\ Running("Unicode", "loop") =>
          /\ Top.res = Flat(Top.toks)
          /\ \A j \in 1 .. Len(Top.toks) : Top.toks[j] \in Range(words)
          /\ Top.toks # <<>> =>
                Len(Flat(SubSeq(Top.toks, 1, Len(Top.toks) - 1))) < Top.n
          /\ Len(Top.res) < Top.n + MaxTokenLen(words)
          /\ Top.n = First.n
    /\ done => /\ Len(result) < First.n + MaxTokenLen(words)
               /\ (First.n > 0 => Len(result) > 0)

\* the loop is over after several tokens, past the requested length
C10_Witness ==
    /\ Running("Unicode", "loop")
    /\ Len(Top.toks) >= 3
    /\ Len(Top.res) > Top.n
    /\ \E j \in 1 .. Len(Top.toks) : Len(Top.toks[j]) > 1

C7_SizeUnchanged ==
    \A j \in 1 .. Len(stack) :
        /\ stack[j].size = size
        /\ stack[j].pc = "iter" => stack[j].it.size = size

\* a scalar generated four calls deep at a positive size
C7_Witness ==
    /\ Len(stack) >= 5
    /\ size = MaxSize
    /\ Top.ty.k \in PrimKinds
    /\ stack[1].pc = "iter"
    /\ stack[1].it.count > 0

\* one element produced by Iter::next: the count was positive and went down
\* by one
IterProgress ==
    (stack # <<>> /\ Top.pc = "iter" /\ Len(stack') > Len(stack)) =>
        /\ Top.it.count > 0
        /\ stack'[Len(stack)].it.count = Top.it.count - 1

\* one iteration of gen_unicode_str's loop: the string got longer
UnicodeProgress ==
    (Running("Unicode", "loop") /\ Len(stack') = Len(stack)) =>
        Len(stack'[Len(stack)].res) > Len(Top.res)

\* the mapping loop: i insertions done out of n, one more after an insertion
MapProgress ==
    /\ Running("HashMap", "loop") => Top.i <= Top.n
    /\ (Running("HashMap", "loop") /\ Len(Top.vals) = 2) =>
          stack'[Len(stack)].i = Top.i + 1

\* C6: every generation call returns; the iterator's count goes down by one
\* on each element, the mapping loop counts its n iterations, and the
\* sample-corpus loop makes the string longer on every iteration
C6_Terminates ==
    /\ <>done
    /\ [][IterProgress /\ UnicodeProgress /\ MapProgress]_vars

\* a returned sample-corpus string of several tokens
C6_Witness ==
    /\ done
    /\ ty = Prim("Unicode")
    /\ First.n >= 3
    /\ calls >= 4

====
